---- MODULE Spec2Model ----
(***************************************************************************)
(* SmartCV: job-description parser (app1_parser.py) and Notion uploader    *)
(* (app2_notion_uploader_v3.py).                                           *)
(*                                                                         *)
(* Text is a tuple of characters, one string each, so that slicing, joining *)
(* and substring search are computed on the characters.  A JSON value is a *)
(* tagged record [t |-> kind, v |-> payload]; a key that a dict lacks is   *)
(* the value Absent.                                                       *)
(*                                                                         *)
(* Spec       stage two: sequential calls of save_to_notion against the    *)
(*            record store, one store round trip per step.                 *)
(* SpecConc   stage two with several callers whose store round trips         *)
(*            interleave.                                                  *)
(* SpecParse  stage one: SmartJobParser.run on one job description, one    *)
(*            step per reply of the inference service.                     *)
(* SpecPipe   both stages: documents are parsed, parsed_output.json is        *)
(*            written, and stage two uploads what the file holds.          *)
(* SpecText   the text functions of stage one, each applied to one text.   *)
(***************************************************************************)
EXTENDS Integers, Sequences, FiniteSets, TLC

VARIABLES
    companies,   \* DB_COMPANIES: page id -> properties
    roles,       \* DB_ROLE_TEMPLATE: page id -> properties
    jobs,        \* DB_JOBS: page id -> properties
    nextId,      \* the next page id the store assigns
    faults,      \* store round trips that failed so far
    digest,      \* sha256 as revealed so far: hashed string -> fingerprint number
    ing,         \* per caller: the frame of its save_to_notion call
    history,     \* the finished save_to_notion calls, in order
    hashLog,     \* every hash_job_text call made: its arguments, hashed string, result
    run,         \* stage one: the frame of SmartJobParser.run
    disk         \* parsed_output.json, and which runs wrote and fed it

storeVars == <<companies, roles, jobs, nextId>>
uploadVars == <<companies, roles, jobs, nextId, faults, digest, ing, history, hashLog>>
vars == <<companies, roles, jobs, nextId, faults, digest, ing, history, hashLog, run, disk>>

----------------------------------------------------------------------------
\* Bounds of the model

MaxIngest == 2       \* save_to_notion calls in one behaviour
MaxFaults == 1       \* store round trips that fail in one behaviour
NumFP == 2           \* distinct fingerprints the digest may produce
MaxFrags == 3        \* text fragments in one job description
LongItem == 1898     \* length of the long responsibilities item of the inputs
NumProcs == 2        \* callers of save_to_notion the frames are kept for
MaxRuns == 2         \* presses of the parse button in one behaviour

\* Program constants
TextLimit == 1900    \* [:1900]
QueryPrefix == 60    \* [:60]
HashLen == 16        \* hexdigest()[:16]

Procs == 1..NumProcs
SeqProcs == {1}      \* the single-threaded, synchronous caller
ConcProcs == {1, 2}  \* two callers at the same time
None == 0            \* Python None as a page id

----------------------------------------------------------------------------
\* Text and JSON values

Min(a, b) == IF a < b THEN a ELSE b

Rep(c, n) == [i \in 1..n |-> c]

\* s[:n]
Slice(s, n) == SubSeq(s, 1, Min(Len(s), n))

\* sub in s
Contains(s, sub) ==
    \E i \in 0..(Len(s) - Len(sub)) : SubSeq(s, i + 1, i + Len(sub)) = sub

RECURSIVE Join(_, _)
\* sep.join(items)
Join(sep, items) ==
    IF items = <<>> THEN <<>>
    ELSE IF Len(items) = 1 THEN items[1]
    ELSE items[1] \o sep \o Join(sep, Tail(items))

Absent == [t |-> "absent"]
JNull == [t |-> "null"]
JStr(s) == [t |-> "str", v |-> s]
JBool(b) == [t |-> "bool", v |-> b]
JNum(n) == [t |-> "num", v |-> n]
JList(l) == [t |-> "list", v |-> l]
JDict(d) == [t |-> "dict", v |-> d]

DigitChars == <<"0","1","2","3","4","5","6","7","8","9">>
Digits == {DigitChars[i] : i \in DOMAIN DigitChars}
DigitVal(c) == (CHOOSE i \in DOMAIN DigitChars : DigitChars[i] = c) - 1

RECURSIVE DigitsOf(_)
\* str(n) for n >= 0
DigitsOf(n) ==
    IF n < 10 THEN <<DigitChars[n + 1]>>
    ELSE DigitsOf(n \div 10) \o <<DigitChars[(n % 10) + 1]>>

\* d.get(k, default)
Get(d, k, default) == IF d[k] = Absent THEN default ELSE d[k]

S_UnknownCompany ==
    <<"U","n","k","n","o","w","n"," ","C","o","m","p","a","n","y">>
S_UntitledJob == <<"U","n","t","i","t","l","e","d"," ","J","o","b">>
S_UntitledRole == <<"U","n","t","i","t","l","e","d"," ","R","o","l","e">>
\* "\n• "; the character U+2022 is written "BULLET"
S_Bullet == <<"\n", "BULLET", " ">>
S_CommaSp == <<",", " ">>

HexDigits == <<"0","1","2","3","4","5","6","7","8","9","a","b","c","d","e","f">>

\* The 16 hexadecimal characters of fingerprint number k.
HexOf(k) == Rep(HexDigits[k], HashLen)

----------------------------------------------------------------------------
\* The parsed record that stage two reads (a Python dict, keys in file order)

DumpOrder ==
    <<"position_title", "company", "location", "responsibilities",
      "industry_keywords", "function", "experience_level",
      "required_preferred_skills", "ats_triggers", "visa_citizenship_notes",
      "culture", "company_focus", "markdown_text", "salary_min",
      "salary_max", "currency", "visa_sponsorship", "remote_hybrid">>
ParsedKeys == {DumpOrder[i] : i \in DOMAIN DumpOrder}

KeyChars ==
    [k \in ParsedKeys |->
        CASE k = "position_title" -> <<"p","o","s","i","t","i","o","n","_","t","i","t","l","e">>
          [] k = "company" -> <<"c","o","m","p","a","n","y">>
          [] k = "location" -> <<"l","o","c","a","t","i","o","n">>
          [] k = "responsibilities" -> <<"r","e","s","p","o","n","s","i","b","i","l","i","t","i","e","s">>
          [] k = "industry_keywords" -> <<"i","n","d","u","s","t","r","y","_","k","e","y","w","o","r","d","s">>
          [] k = "function" -> <<"f","u","n","c","t","i","o","n">>
          [] k = "experience_level" -> <<"e","x","p","e","r","i","e","n","c","e","_","l","e","v","e","l">>
          [] k = "required_preferred_skills" -> <<"r","e","q","u","i","r","e","d","_","p","r","e","f","e","r","r","e","d","_","s","k","i","l","l","s">>
          [] k = "ats_triggers" -> <<"a","t","s","_","t","r","i","g","g","e","r","s">>
          [] k = "visa_citizenship_notes" -> <<"v","i","s","a","_","c","i","t","i","z","e","n","s","h","i","p","_","n","o","t","e","s">>
          [] k = "culture" -> <<"c","u","l","t","u","r","e">>
          [] k = "company_focus" -> <<"c","o","m","p","a","n","y","_","f","o","c","u","s">>
          [] k = "markdown_text" -> <<"m","a","r","k","d","o","w","n","_","t","e","x","t">>
          [] k = "salary_min" -> <<"s","a","l","a","r","y","_","m","i","n">>
          [] k = "salary_max" -> <<"s","a","l","a","r","y","_","m","a","x">>
          [] k = "currency" -> <<"c","u","r","r","e","n","c","y">>
          [] k = "visa_sponsorship" -> <<"v","i","s","a","_","s","p","o","n","s","o","r","s","h","i","p">>
          [] k = "remote_hybrid" -> <<"r","e","m","o","t","e","_","h","y","b","r","i","d">>]

S_Quote == <<"\"">>
Quoted(s) == S_Quote \o s \o S_Quote

\* json.dumps of one value: strings quoted, a list of strings in brackets,
\* numbers in decimal; the inside of a nested dict is abbreviated to {}.
DumpValue(v) ==
    CASE v.t = "str" -> Quoted(v.v)
      [] v.t = "list" ->
            <<"[">> \o Join(S_CommaSp, [i \in DOMAIN v.v |-> Quoted(v.v[i])]) \o <<"]">>
      [] v.t = "bool" -> IF v.v THEN <<"t","r","u","e">> ELSE <<"f","a","l","s","e">>
      [] v.t = "num" -> DigitsOf(v.v)
      [] v.t = "null" -> <<"n","u","l","l">>
      [] OTHER -> <<"{", "}">>

\* json.dumps(parsed, ensure_ascii=False): the present keys in dict order.
Dumps(parsed) ==
    LET present == SelectSeq(DumpOrder, LAMBDA k : parsed[k] # Absent)
        entry(k) == Quoted(KeyChars[k]) \o <<":", " ">> \o DumpValue(parsed[k])
    IN  <<"{">> \o Join(S_CommaSp, [i \in DOMAIN present |-> entry(present[i])]) \o <<"}">>

\* The string content of parsed.get(k, default), default a text.
GetText(parsed, k, default) == Get(parsed, k, JStr(default)).v

\* The list content of parsed.get(k, []).
GetList(parsed, k) == Get(parsed, k, JList(<<>>)).v

----------------------------------------------------------------------------
\* hash_job_text

\* hash_job_text with the company left out of the hashed string
hash_base_text_only(text, company) == text

\* base = f"{company}_{text}"
hash_base(text, company) == company \o <<"_">> \o text

\* hashlib.sha256(base).hexdigest()[:16]: sha256 is a fixed function that the
\* model reveals on first use.  A string hashed before keeps its fingerprint; a
\* new string gets an unused fingerprint or, when the digest collides, a used one.
UsedFP == {digest[b] : b \in DOMAIN digest}
Sha256Hex16(base, h) ==
    IF base \in DOMAIN digest
    THEN h = digest[base]
    ELSE h \in 1..Min(Cardinality(UsedFP) + 1, NumFP)

\* hash_job_text(text, company) returns fingerprint number h (HexOf(h) as text).
hash_job_text(text, company, h) ==
    LET base == hash_base(text, company)
    IN  /\ Sha256Hex16(base, h)
        /\ digest' = IF base \in DOMAIN digest THEN digest ELSE digest @@ (base :> h)
        /\ hashLog' = hashLog \cup
               {[company |-> company, text |-> text, base |-> base, fp |-> h]}

----------------------------------------------------------------------------
\* Builder functions: the text properties each builder writes

\* build_job_props that leaves the fingerprint property empty
build_job_props_no_hash(parsed, jd_text, job_hash) ==
    [JobTitle |-> GetText(parsed, "position_title", S_UntitledJob),
     Company |-> GetText(parsed, "company", S_UnknownCompany),
     JobDescription |-> Slice(jd_text, TextLimit),
     ParsedSnapshot |-> Slice(Dumps(parsed), TextLimit),
     Hash |-> <<>>]

build_job_props(parsed, jd_text, job_hash) ==
    [JobTitle |-> GetText(parsed, "position_title", S_UntitledJob),
     Company |-> GetText(parsed, "company", S_UnknownCompany),
     JobDescription |-> Slice(jd_text, TextLimit),
     ParsedSnapshot |-> Slice(Dumps(parsed), TextLimit),
     Hash |-> HexOf(job_hash)]

\* parsed.get("location", {}).get(...) raises unless location is a dict.
build_role_props_raises(parsed) == parsed.location.t \notin {"absent", "dict"}

build_role_props(parsed) ==
    LET skills == Get(parsed, "required_preferred_skills", JDict(<<>>))
        skill(k) == IF k \in DOMAIN skills.v THEN skills.v[k] ELSE <<>>
    IN  [RoleTitle |-> GetText(parsed, "position_title", S_UntitledRole),
         Function |-> GetText(parsed, "function", <<>>),
         CoreCompetencies |-> S_Bullet \o Join(S_Bullet, skill("core_competencies")),
         Responsibility |-> S_Bullet \o Join(S_Bullet, GetList(parsed, "responsibilities")),
         RoleRequirements |-> GetText(parsed, "experience_level", <<>>),
         TechnicalTools |-> S_Bullet \o Join(S_Bullet, skill("tools_technologies")),
         IndustryID |-> Join(S_CommaSp, GetList(parsed, "industry_keywords")),
         parsed_json |-> Slice(Dumps(parsed), TextLimit)]

build_company_props(parsed) ==
    [Name |-> GetText(parsed, "company", S_UnknownCompany),
     VisaPolicy |-> GetText(parsed, "visa_citizenship_notes", <<>>),
     Culture |-> GetText(parsed, "culture", <<>>),
     HiringFocus |-> GetText(parsed, "company_focus", <<>>),
     parsed_json |-> Slice(Dumps(parsed), TextLimit)]

JobTextFields == {"JobTitle", "Company", "JobDescription", "ParsedSnapshot", "Hash"}
RoleTextFields ==
    {"RoleTitle", "Function", "CoreCompetencies", "Responsibility",
     "RoleRequirements", "TechnicalTools", "IndustryID", "parsed_json"}
CompanyTextFields == {"Name", "VisaPolicy", "Culture", "HiringFocus", "parsed_json"}

----------------------------------------------------------------------------
\* The record store as save_to_notion uses it

\* notion_query(DB_JOBS, Hash / Fingerprint equals job_hash): the matching pages
QueryJobs(job_hash) == {id \in DOMAIN jobs : jobs[id].Hash = HexOf(job_hash)}

\* notion_query(db, title contains sub): the matching pages
QueryContains(db, field, sub) == {id \in DOMAIN db : Contains(db[id][field], sub)}

\* get_first_page_id that never finds a page
get_first_page_id_none(query_result, id) == id = None

\* get_first_page_id: None for no result, else results[0]; which matching page
\* the store lists first is the store's choice.
get_first_page_id(query_result, id) ==
    IF query_result = {} THEN id = None ELSE id \in query_result

----------------------------------------------------------------------------
\* save_to_notion, one step per store round trip

EmptyParsed == [k \in ParsedKeys |-> Absent]

IdleFrame ==
    [pc |-> "idle", parsed |-> EmptyParsed, jd_text |-> <<>>, company |-> <<>>,
     job_hash |-> 0, jobs_at_call |-> 0,
     company_page_id |-> None, role_page_id |-> None,
     writes |-> <<>>, outcome |-> "none", failed_at |-> "none",
     msgs |-> <<>>, raised |-> FALSE]

Running(p) == ing[p].pc \notin {"idle", "done"}
Started == Len(history) + Cardinality({p \in Procs : Running(p)})

\* A write the call has issued: create or update, on which collection and page,
\* with which properties.
Write(op, coll, id, props) == [op |-> op, coll |-> coll, id |-> id, props |-> props]

\* The call returns or raises: its frame is final.
Finish(p, f) ==
    /\ ing' = [ing EXCEPT ![p] = f]
    /\ history' = Append(history, f)

\* the handler without its raise: the error is reported and swallowed
ExceptFrameSwallow(f) ==
    [f EXCEPT !.pc = "done", !.outcome = "Failed", !.failed_at = f.pc,
              !.msgs = Append(@, "error")]

\* except Exception as e: st.error(...); raise
ExceptFrame(f) ==
    [f EXCEPT !.pc = "done", !.outcome = "Failed", !.failed_at = f.pc,
              !.msgs = Append(@, "error"), !.raised = TRUE]

Raise(p) ==
    /\ Finish(p, ExceptFrame(ing[p]))
    /\ UNCHANGED storeVars

\* company = parsed.get("company", "Unknown Company"); job_hash = hash_job_text(...)
Call(p, parsed, jd_text) ==
    /\ ~Running(p)
    /\ Started < MaxIngest
    /\ LET company == GetText(parsed, "company", S_UnknownCompany)
       IN  \E h \in 1..NumFP :
             /\ hash_job_text(jd_text, company, h)
             /\ ing' = [ing EXCEPT ![p] =
                    [IdleFrame EXCEPT !.pc = "dedup", !.parsed = parsed,
                                      !.jd_text = jd_text, !.company = company,
                                      !.job_hash = h,
                                      !.jobs_at_call = Cardinality(QueryJobs(h))]]
    /\ UNCHANGED <<storeVars, faults, history>>

\* the duplicate check without its return: warns and goes on
DedupNoReturn(p) ==
    /\ ing[p].pc = "dedup"
    /\ ing' = [ing EXCEPT ![p].pc = "q_company",
                          ![p].msgs = IF QueryJobs(ing[p].job_hash) # {}
                                      THEN Append(@, "warning") ELSE @]
    /\ UNCHANGED <<storeVars, faults, digest, hashLog, history>>

\* q = notion_query(DB_JOBS, ...); if q.get("results"): warning; return
Dedup(p) ==
    /\ ing[p].pc = "dedup"
    /\ IF QueryJobs(ing[p].job_hash) # {}
       THEN Finish(p, [ing[p] EXCEPT !.pc = "done", !.outcome = "Duplicate",
                                     !.msgs = Append(@, "warning")])
       ELSE /\ ing' = [ing EXCEPT ![p].pc = "q_company"]
            /\ UNCHANGED history
    /\ UNCHANGED <<storeVars, faults, digest, hashLog>>

\* q_company = notion_query(DB_COMPANIES, Name contains company[:60]);
\* company_page_id = get_first_page_id(q_company)
QueryCompany(p) ==
    /\ ing[p].pc = "q_company"
    /\ \E id \in DOMAIN companies \cup {None} :
         /\ get_first_page_id(
                QueryContains(companies, "Name", Slice(ing[p].company, QueryPrefix)), id)
         /\ ing' = [ing EXCEPT ![p].pc = "w_company", ![p].company_page_id = id]
    /\ UNCHANGED <<storeVars, faults, digest, hashLog, history>>

\* the company write that forgets company_page_id = new_company["id"]
WriteCompanyNoId(p) ==
    LET f == ing[p]
        props == build_company_props(f.parsed)
    IN  /\ f.pc = "w_company"
        /\ IF f.company_page_id # None
           THEN /\ companies' = [companies EXCEPT ![f.company_page_id] = props]
                /\ nextId' = nextId
                /\ ing' = [ing EXCEPT ![p].pc = "q_role",
                       ![p].writes = Append(@, Write("update", "Company", f.company_page_id, props)),
                       ![p].msgs = Append(@, "info")]
           ELSE /\ companies' = companies @@ (nextId :> props)
                /\ nextId' = nextId + 1
                /\ ing' = [ing EXCEPT ![p].pc = "q_role",
                       ![p].writes = Append(@, Write("create", "Company", nextId, props)),
                       ![p].msgs = Append(@, "success")]
        /\ UNCHANGED <<roles, jobs, faults, digest, hashLog, history>>

\* if company_page_id: notion.pages.update(...) else: notion.pages.create(...)
WriteCompany(p) ==
    LET f == ing[p]
        props == build_company_props(f.parsed)
    IN  /\ f.pc = "w_company"
        /\ IF f.company_page_id # None
           THEN /\ companies' = [companies EXCEPT ![f.company_page_id] = props]
                /\ nextId' = nextId
                /\ ing' = [ing EXCEPT ![p].pc = "q_role",
                       ![p].writes = Append(@, Write("update", "Company", f.company_page_id, props)),
                       ![p].msgs = Append(@, "info")]
           ELSE /\ companies' = companies @@ (nextId :> props)
                /\ nextId' = nextId + 1
                /\ ing' = [ing EXCEPT ![p].pc = "q_role",
                       ![p].company_page_id = nextId,
                       ![p].writes = Append(@, Write("create", "Company", nextId, props)),
                       ![p].msgs = Append(@, "success")]
        /\ UNCHANGED <<roles, jobs, faults, digest, hashLog, history>>

\* q_role = notion_query(DB_ROLE_TEMPLATE, Role Title contains position_title[:60]);
\* role_props = build_role_props(parsed); role_page_id = get_first_page_id(q_role)
QueryRole(p) ==
    LET f == ing[p]
    IN  /\ f.pc = "q_role"
        /\ IF build_role_props_raises(f.parsed)
           THEN Raise(p) /\ faults' = faults
           ELSE /\ \E id \in DOMAIN roles \cup {None} :
                     /\ get_first_page_id(
                            QueryContains(roles, "RoleTitle",
                                Slice(GetText(f.parsed, "position_title", <<>>), QueryPrefix)),
                            id)
                     /\ ing' = [ing EXCEPT ![p].pc = "w_role", ![p].role_page_id = id]
                /\ UNCHANGED <<storeVars, faults, history>>
        /\ UNCHANGED <<digest, hashLog>>

\* role_props["Parsed Company"] = relation to company_page_id;
\* if role_page_id: update else: create
WriteRole(p) ==
    LET f == ing[p]
        props == build_role_props(f.parsed) @@ [ParsedCompany |-> f.company_page_id]
    IN  /\ f.pc = "w_role"
        /\ IF f.role_page_id # None
           THEN /\ roles' = [roles EXCEPT ![f.role_page_id] = props]
                /\ nextId' = nextId
                /\ ing' = [ing EXCEPT ![p].pc = "w_job",
                       ![p].writes = Append(@, Write("update", "Role", f.role_page_id, props)),
                       ![p].msgs = Append(@, "info")]
           ELSE /\ roles' = roles @@ (nextId :> props)
                /\ nextId' = nextId + 1
                /\ ing' = [ing EXCEPT ![p].pc = "w_job",
                       ![p].role_page_id = nextId,
                       ![p].writes = Append(@, Write("create", "Role", nextId, props)),
                       ![p].msgs = Append(@, "success")]
        /\ UNCHANGED <<companies, jobs, faults, digest, hashLog, history>>

\* job_props = build_job_props(...) with both relations; notion.pages.create(...);
\* return new_job["id"]
WriteJob(p) ==
    LET f == ing[p]
        props == build_job_props(f.parsed, f.jd_text, f.job_hash)
                     @@ [ParsedRoleTemplate |-> f.role_page_id,
                         ParsedCompany |-> f.company_page_id]
    IN  /\ f.pc = "w_job"
        /\ jobs' = jobs @@ (nextId :> props)
        /\ nextId' = nextId + 1
        /\ Finish(p, [f EXCEPT !.pc = "done", !.outcome = "Saved",
                               !.writes = Append(@, Write("create", "Job", nextId, props)),
                               !.msgs = Append(@, "success")])
        /\ UNCHANGED <<companies, roles, faults, digest, hashLog>>

\* A store round trip fails: notion_query raises on a status other than 200, the
\* SDK raises on a rejected create or update.
StoreRaises(p) ==
    /\ faults < MaxFaults
    /\ ing[p].pc \in {"dedup", "q_company", "w_company", "q_role", "w_role", "w_job"}
    /\ faults' = faults + 1
    /\ Raise(p)
    /\ UNCHANGED <<digest, hashLog>>

----------------------------------------------------------------------------
\* Stage one: characters and regular expressions of app1_parser.py
\* U+2013, U+2014, U+2022 and U+00A0 are written "ENDASH", "EMDASH", "BULLET", "NBSP".

Lowers == <<"a","b","c","d","e","f","g","h","i","j","k","l","m","n","o","p","q","r","s","t","u","v","w","x","y","z">>
Uppers == <<"A","B","C","D","E","F","G","H","I","J","K","L","M","N","O","P","Q","R","S","T","U","V","W","X","Y","Z">>
LowerSet == {Lowers[i] : i \in DOMAIN Lowers}
UpperSet == {Uppers[i] : i \in DOMAIN Uppers}
\* \w
WordChars == LowerSet \cup UpperSet \cup Digits \cup {"_"}
\* \s
Whitespace == {" ", "\n", "\t", "NBSP"}
DigitComma == Digits \cup {","}

ToLower(c) ==
    IF c \in UpperSet THEN Lowers[CHOOSE i \in DOMAIN Uppers : Uppers[i] = c] ELSE c
ToUpper(c) ==
    IF c \in LowerSet THEN Uppers[CHOOSE i \in DOMAIN Lowers : Lowers[i] = c] ELSE c

\* str.capitalize()
Capitalize(s) == [i \in DOMAIN s |-> IF i = 1 THEN ToUpper(s[i]) ELSE ToLower(s[i])]

\* The character at position i, "" past either end.
At(text, i) == IF i \in DOMAIN text THEN text[i] ELSE ""

MinOf(S) == CHOOSE x \in S : \A y \in S : x <= y

RECURSIVE RunEnd(_, _, _)
\* Greedy class*: the first position at or after i whose character is not in class.
RunEnd(text, i, class) ==
    IF At(text, i) \in class THEN RunEnd(text, i + 1, class) ELSE i

\* the match without (?i): the literal word as it is written
MatchAtCS(text, i, word) ==
    /\ i + Len(word) - 1 <= Len(text)
    /\ \A k \in DOMAIN word : text[i + k - 1] = word[k]

\* The literal word (lower case) matches at position i, ignoring case.
MatchAtCI(text, i, word) ==
    /\ i + Len(word) - 1 <= Len(text)
    /\ \A k \in DOMAIN word : ToLower(text[i + k - 1]) = word[k]

\* re.search of a literal, (?i)
ContainsCI(text, word) == \E i \in 1..Len(text) : MatchAtCI(text, i, word)

\* \b at the gap before position i
Boundary(text, i) == (At(text, i - 1) \in WordChars) # (At(text, i) \in WordChars)

----------------------------------------------------------------------------
\* clean_text

\* for old, new in replacements.items(): text = text.replace(old, new)
ReplaceChar(c) ==
    CASE c = "ENDASH" -> <<"-">>
      [] c = "EMDASH" -> <<"-">>
      [] c = "BULLET" -> <<"BULLET", " ">>
      [] c = "NBSP" -> <<" ">>
      [] OTHER -> <<c>>

RECURSIVE Replacements(_)
Replacements(text) ==
    IF text = <<>> THEN <<>> ELSE ReplaceChar(Head(text)) \o Replacements(Tail(text))

\* clean_text without its whitespace collapse: the text from position i as it is
CollapseSpaceSkip(text, i) == SubSeq(text, i, Len(text))

RECURSIVE CollapseSpace(_, _)
\* re.sub(r"\s+", " ", text), from position i
CollapseSpace(text, i) ==
    IF i > Len(text) THEN <<>>
    ELSE IF text[i] \in Whitespace
         THEN <<" ">> \o CollapseSpace(text, RunEnd(text, i, Whitespace))
         ELSE <<text[i]>> \o CollapseSpace(text, i + 1)

RECURSIVE CollapseNewlines(_, _)
\* re.sub(r"\n{2,}", "\n\n", text), from position i
CollapseNewlines(text, i) ==
    IF i > Len(text) THEN <<>>
    ELSE IF text[i] = "\n" /\ At(text, i + 1) = "\n"
         THEN <<"\n", "\n">> \o CollapseNewlines(text, RunEnd(text, i, {"\n"}))
         ELSE <<text[i]>> \o CollapseNewlines(text, i + 1)

RECURSIVE LStrip(_)
LStrip(s) == IF s # <<>> /\ Head(s) \in Whitespace THEN LStrip(Tail(s)) ELSE s
RECURSIVE RStrip(_)
RStrip(s) ==
    IF s # <<>> /\ s[Len(s)] \in Whitespace THEN RStrip(SubSeq(s, 1, Len(s) - 1)) ELSE s
\* str.strip()
Strip(s) == RStrip(LStrip(s))

\* clean_text of a str; "if not text" is the test for the empty text
clean_text(text) ==
    IF text = <<>> THEN <<>>
    ELSE Strip(CollapseNewlines(CollapseSpace(Replacements(text), 1), 1))

----------------------------------------------------------------------------
\* detect_format

HtmlPatterns == <<<<"<","d","i","v">>, <<"<","p">>, <<"<","u","l">>, <<"<","l","i">>,
                  <<"<","b","r">>>>

\* #+\s
MdHeading(text) ==
    \E i \in 1..Len(text) : text[i] = "#" /\ At(text, i + 1) \in Whitespace
\* \*\*.+\*\*   (. is any character but a newline)
MdBold(text) ==
    \E i, j \in 1..Len(text) :
        /\ j >= i + 3
        /\ At(text, i) = "*" /\ At(text, i + 1) = "*"
        /\ At(text, j) = "*" /\ At(text, j + 1) = "*"
        /\ \A k \in (i + 2)..(j - 1) : text[k] # "\n"
\* \[.+\]\(.+\)
MdLink(text) ==
    \E i, j, k \in 1..Len(text) :
        /\ text[i] = "["
        /\ j >= i + 2 /\ text[j] = "]" /\ At(text, j + 1) = "("
        /\ k >= j + 3 /\ text[k] = ")"
        /\ \A m \in ((i + 1)..(j - 1)) \cup ((j + 2)..(k - 1)) : text[m] # "\n"

\* detect_format that tests the Markdown patterns first
detect_format_md_first(text) ==
    IF MdHeading(text) \/ MdBold(text) \/ MdLink(text) THEN "markdown"
    ELSE IF \E n \in DOMAIN HtmlPatterns : ContainsCI(text, HtmlPatterns[n]) THEN "html"
    ELSE "plain"

detect_format(text) ==
    IF \E n \in DOMAIN HtmlPatterns : ContainsCI(text, HtmlPatterns[n]) THEN "html"
    ELSE IF MdHeading(text) \/ MdBold(text) \/ MdLink(text) THEN "markdown"
    ELSE "plain"

----------------------------------------------------------------------------
\* convert_to_markdown

HeadingMapping ==
    <<[alts |-> <<<<"j","o","b"," ","d","e","s","c","r","i","p","t","i","o","n">>,
                  <<"o","v","e","r","v","i","e","w">>,
                  <<"s","u","m","m","a","r","y">>>>,
       rpl |-> <<"#","#"," ","J","o","b"," ","D","e","s","c","r","i","p","t","i","o","n">>],
      [alts |-> <<<<"r","e","s","p","o","n","s","i","b","i","l","i","t","i","e","s">>,
                  <<"d","u","t","i","e","s">>,
                  <<"t","a","s","k","s">>>>,
       rpl |-> <<"#","#"," ","R","e","s","p","o","n","s","i","b","i","l","i","t","i","e","s">>],
      [alts |-> <<<<"q","u","a","l","i","f","i","c","a","t","i","o","n","s">>,
                  <<"r","e","q","u","i","r","e","d"," ","s","k","i","l","l","s">>,
                  <<"r","e","q","u","i","r","e","m","e","n","t","s">>>>,
       rpl |-> <<"#","#"," ","Q","u","a","l","i","f","i","c","a","t","i","o","n","s">>],
      [alts |-> <<<<"p","r","e","f","e","r","r","e","d">>,
                  <<"n","i","c","e"," ","t","o"," ","h","a","v","e">>>>,
       rpl |-> <<"#","#"," ","P","r","e","f","e","r","r","e","d"," ","Q","u","a","l","i","f","i","c","a","t","i","o","n","s">>],
      [alts |-> <<<<"e","d","u","c","a","t","i","o","n">>>>,
       rpl |-> <<"#","#"," ","E","d","u","c","a","t","i","o","n">>],
      [alts |-> <<<<"e","x","p","e","r","i","e","n","c","e">>>>,
       rpl |-> <<"#","#"," ","E","x","p","e","r","i","e","n","c","e">>],
      [alts |-> <<<<"s","a","l","a","r","y">>,
                  <<"c","o","m","p","e","n","s","a","t","i","o","n">>,
                  <<"p","a","y">>>>,
       rpl |-> <<"#","#"," ","C","o","m","p","e","n","s","a","t","i","o","n">>],
      [alts |-> <<<<"l","o","c","a","t","i","o","n">>,
                  <<"w","o","r","k"," ","l","o","c","a","t","i","o","n">>>>,
       rpl |-> <<"#","#"," ","L","o","c","a","t","i","o","n">>],
      [alts |-> <<<<"a","b","o","u","t"," ","u","s">>,
                  <<"c","o","m","p","a","n","y"," ","o","v","e","r","v","i","e","w">>>>,
       rpl |-> <<"#","#"," ","A","b","o","u","t"," ","U","s">>],
      [alts |-> <<<<"b","e","n","e","f","i","t","s">>,
                  <<"p","e","r","k","s">>,
                  <<"w","h","a","t"," ","w","e"," ","o","f","f","e","r">>>>,
       rpl |-> <<"#","#"," ","B","e","n","e","f","i","t","s">>]>>

\* The alternatives of a pattern that match at i between two word boundaries.
AltsAt(text, i, alts) ==
    {n \in DOMAIN alts :
        /\ MatchAtCI(text, i, alts[n])
        /\ Boundary(text, i)
        /\ Boundary(text, i + Len(alts[n]))}

RECURSIVE SubWords(_, _, _, _)
\* re.sub(r"(?i)\b(alt1|alt2|...)\b", rpl, text), from position i: at each position
\* the first alternative that matches is replaced and the scan goes on behind it.
SubWords(text, i, alts, rpl) ==
    IF i > Len(text) THEN <<>>
    ELSE IF AltsAt(text, i, alts) # {}
         THEN rpl \o SubWords(text, i + Len(alts[MinOf(AltsAt(text, i, alts))]), alts, rpl)
         ELSE <<text[i]>> \o SubWords(text, i + 1, alts, rpl)

RECURSIVE ApplyMapping(_, _)
\* for p, rpl in mapping.items(): text = re.sub(p, rpl, text), from entry n
ApplyMapping(text, n) ==
    IF n > Len(HeadingMapping) THEN text
    ELSE ApplyMapping(
             SubWords(text, 1, HeadingMapping[n].alts, HeadingMapping[n].rpl), n + 1)

RECURSIVE DropTags(_, _)
\* markdownify's md(text, heading_style="ATX", bullets=...) as far as the model
\* follows the library: every <...> tag is dropped and the text between is kept.
DropTags(text, inTag) ==
    IF text = <<>> THEN <<>>
    ELSE IF inTag
         THEN DropTags(Tail(text), Head(text) # ">")
         ELSE IF Head(text) = "<" /\ \E k \in DOMAIN text : text[k] = ">"
              THEN DropTags(Tail(text), TRUE)
              ELSE <<Head(text)>> \o DropTags(Tail(text), FALSE)
md(text) == DropTags(text, FALSE)

convert_to_markdown(text) ==
    Strip(ApplyMapping(IF detect_format(text) = "html" THEN md(text) ELSE text, 1))

----------------------------------------------------------------------------
\* heuristic_extract

S_USD == <<"U","S","D">>
VisaPhrases == <<<<"n","o"," ","s","p","o","n","s","o","r","s","h","i","p">>,
                 <<"n","o","t"," ","o","f","f","e","r"," ","s","p","o","n","s","o","r","s","h","i","p">>,
                 <<"o","p","t">>,
                 <<"c","p","t">>>>
RemoteWords == <<<<"r","e","m","o","t","e">>, <<"h","y","b","r","i","d">>, <<"o","n","-","s","i","t","e">>>>

\* \$([0-9,]+)\s*-\s*\$?([0-9,]+) matched at position i: the two groups, or no match.
\* Every quantifier is greedy and none can give a character back to what follows.
SalaryAt(text, i) ==
    LET a == i + 1
        b == RunEnd(text, a, DigitComma)
        c == RunEnd(text, b, Whitespace)
        d == RunEnd(text, c + 1, Whitespace)
        e == IF At(text, d) = "$" THEN d + 1 ELSE d
        f == RunEnd(text, e, DigitComma)
    IN  IF At(text, i) = "$" /\ b > a /\ At(text, c) = "-" /\ f > e
        THEN [found |-> TRUE, g1 |-> SubSeq(text, a, b - 1), g2 |-> SubSeq(text, e, f - 1)]
        ELSE [found |-> FALSE, g1 |-> <<>>, g2 |-> <<>>]

\* re.search: the match at the leftmost position that has one
SalarySearch(text) ==
    LET hits == {i \in 1..Len(text) : SalaryAt(text, i).found}
    IN  IF hits = {} THEN SalaryAt(text, 0) ELSE SalaryAt(text, MinOf(hits))

\* group.replace(",", "")
NoCommas(s) == SelectSeq(s, LAMBDA c : c # ",")

RECURSIVE IntOf(_)
\* int(digits) of a non-empty digit string
IntOf(s) ==
    IF Len(s) = 1 THEN DigitVal(s[1])
    ELSE 10 * IntOf(SubSeq(s, 1, Len(s) - 1)) + DigitVal(s[Len(s)])

\* int("") raises ValueError
IntRaises(s) == NoCommas(s) = <<>>

\* ([A-Z][a-z]+,\s*[A-Z]{2}) matched at position i: the end of the match, 0 for none
LocEnd(text, i) ==
    LET b == RunEnd(text, i + 1, LowerSet)
        c == RunEnd(text, b + 1, Whitespace)
    IN  IF /\ At(text, i) \in UpperSet /\ b > i + 1 /\ At(text, b) = ","
           /\ At(text, c) \in UpperSet /\ At(text, c + 1) \in UpperSet
        THEN c + 1 ELSE 0

HeurOrder ==
    <<"salary_min", "salary_max", "currency", "location", "visa_sponsorship",
      "remote_hybrid">>
HeurKeys == {HeurOrder[i] : i \in DOMAIN HeurOrder}

\* heuristic_extract raises: int() of a salary bound without a digit
heuristic_extract_raises(text) ==
    LET salary == SalarySearch(text)
    IN  salary.found /\ (IntRaises(salary.g1) \/ IntRaises(salary.g2))

\* heuristic_extract(text): the info dict, a key without a match Absent
heuristic_extract(text) ==
    LET salary == SalarySearch(text)
        locs == {i \in 1..Len(text) : LocEnd(text, i) # 0}
        visa == \E n \in DOMAIN VisaPhrases : ContainsCI(text, VisaPhrases[n])
        rems == {i \in 1..Len(text) :
                    \E n \in DOMAIN RemoteWords : MatchAtCI(text, i, RemoteWords[n])}
        remW == RemoteWords[CHOOSE n \in DOMAIN RemoteWords :
                    MatchAtCI(text, MinOf(rems), RemoteWords[n])]
    IN  [k \in HeurKeys |->
            CASE k = "salary_min" ->
                    IF salary.found THEN JNum(IntOf(NoCommas(salary.g1))) ELSE Absent
              [] k = "salary_max" ->
                    IF salary.found THEN JNum(IntOf(NoCommas(salary.g2))) ELSE Absent
              [] k = "currency" -> IF salary.found THEN JStr(S_USD) ELSE Absent
              [] k = "location" ->
                    IF locs = {} THEN Absent
                    ELSE JStr(SubSeq(text, MinOf(locs), LocEnd(text, MinOf(locs))))
              [] k = "visa_sponsorship" -> JBool(~visa)
              [] OTHER ->
                    IF rems = {} THEN Absent
                    ELSE JStr(Capitalize(
                             SubSeq(text, MinOf(rems), MinOf(rems) + Len(remW) - 1)))]

----------------------------------------------------------------------------
\* parse_with_gpt5 and run

\* a loop that tries the fallback twice
ModelsFallbackTwice == <<"gpt-5", "gpt-4o", "gpt-4o">>

\* for model in ["gpt-5", "gpt-4o"]
Models == <<"gpt-5", "gpt-4o">>

\* system_msg: the fixed instruction with the schema
S_SystemMsg == <<"schema">>

\* the test "parsed[k] is None" in place of "not parsed[k]"
FalsyOnlyNone(v) == v.t = "null"

\* not v
Falsy(v) ==
    \/ v.t = "null"
    \/ v.t = "bool" /\ ~v.v
    \/ v.t = "num" /\ v.v = 0
    \/ v.t \in {"str", "list"} /\ v.v = <<>>
    \/ v.t = "dict" /\ DOMAIN v.v = {}

RECURSIVE MergeFrom(_, _, _)
\* for k, v in heuristics.items(): if k not in parsed or not parsed[k]: parsed[k] = v
\* from the n-th key of heuristics on; parsed is a dict
MergeFrom(parsed, heuristics, n) ==
    IF n > Len(HeurOrder) THEN parsed
    ELSE LET k == HeurOrder[n]
         IN  IF heuristics[k] # Absent /\ (parsed[k] = Absent \/ Falsy(parsed[k]))
             THEN MergeFrom([parsed EXCEPT ![k] = heuristics[k]], heuristics, n + 1)
             ELSE MergeFrom(parsed, heuristics, n + 1)

Merge(parsed, heuristics) == MergeFrom(parsed, heuristics, 1)

\* A reply of the inference service to chat.completions.create: an error, or a
\* message whose content is None or a text; raw are the characters of the text
\* (abbreviated for JSON) and loads is what json.loads makes of it, Absent when
\* it is not JSON.
ReplyError == [kind |-> "error", raw |-> <<>>, loads |-> Absent]
ReplyNone == [kind |-> "none", raw |-> <<>>, loads |-> Absent]
ReplyText(raw) == [kind |-> "text", raw |-> raw, loads |-> Absent]
ReplyJson(raw, value) == [kind |-> "text", raw |-> raw, loads |-> value]

\* The path one reply takes through the loop body:
\*   "except"  create() raised, None.strip() raised, or json.loads raised
\*   "skip"    if not content: continue
\*   "return"  parsed = json.loads(content); return parsed
ReplyPath(reply) ==
    IF reply.kind \in {"error", "none"} THEN "except"
    ELSE IF Strip(reply.raw) = <<>> THEN "skip"
    ELSE IF reply.loads = Absent THEN "except"
    ELSE "return"

\* a give-up that returns None
NoValidResponseNone == JNull

\* st.error("No valid response from GPT models."); return {}
NoValidResponse == JDict(EmptyParsed)

\* self.client.chat.completions.create(model=model, messages=[system, user], ...)
Request(model, f) ==
    [model |-> model, system |-> S_SystemMsg,
     user |-> [heuristics |-> f.heuristics, markdown_text |-> f.md_text]]

\* The merge loop of run and its return; a parsed that is no dict raises TypeError
\* at parsed[k] = v (heuristics always holds visa_sponsorship).
Return(f, parsed) ==
    IF parsed.t = "dict"
    THEN [f EXCEPT !.pc = "returned", !.inferred = parsed,
                   !.result = JDict(Merge(parsed.v, f.heuristics))]
    ELSE [f EXCEPT !.pc = "raised", !.inferred = parsed, !.raised = "TypeError"]

\* run up to the first request: clean_text, convert_to_markdown, heuristic_extract,
\* then the first iteration of the loop of parse_with_gpt5
Begin(text) ==
    /\ run.pc = "idle"
    /\ LET cleaned == clean_text(text)
           f == [run EXCEPT !.jd_text = text, !.cleaned = cleaned,
                            !.fmt = detect_format(cleaned),
                            !.md_text = convert_to_markdown(cleaned)]
       IN  IF heuristic_extract_raises(cleaned)
           THEN run' = [f EXCEPT !.pc = "raised", !.raised = "ValueError"]
           ELSE LET g == [f EXCEPT !.heuristics = heuristic_extract(cleaned)]
                IN  run' = [g EXCEPT !.pc = "waiting",
                                     !.calls = <<Request(Models[1], g)>>]
    /\ UNCHANGED <<uploadVars, disk>>

\* The loop of parse_with_gpt5 from one reply to the next request, or to the end
\* of run.
Reply(reply) ==
    /\ run.pc = "waiting"
    /\ LET model == Len(run.calls)
           path == ReplyPath(reply)
           f == [run EXCEPT !.replies = Append(@, reply),
                            !.ui = IF path = "return" THEN Append(@, "info")
                                   ELSE IF path = "except" THEN Append(@, "warning")
                                   ELSE @]
       IN  IF path = "return"
           THEN run' = Return(f, reply.loads)
           ELSE IF model < Len(Models)
                THEN run' = [f EXCEPT !.calls = Append(@, Request(Models[model + 1], f))]
                ELSE run' = Return([f EXCEPT !.ui = Append(@, "error")], NoValidResponse)
    /\ UNCHANGED <<uploadVars, disk>>

----------------------------------------------------------------------------
\* Inputs of save_to_notion

S_A == <<"A">>
S_AB == <<"A", "B">>
S_T == <<"T">>
S_X == <<"X">>
S_r == <<"r">>

P_A ==
    [EmptyParsed EXCEPT !["company"] = JStr(S_A), !["position_title"] = JStr(S_T),
                        !["location"] = JDict([regions |-> <<S_X>>]),
                        !["responsibilities"] = JList(<<S_r, S_r>>)]
P_AB == [P_A EXCEPT !["company"] = JStr(S_AB)]
\* no company, no position_title
P_Anon == [EmptyParsed EXCEPT !["responsibilities"] = JList(<<>>)]
\* one responsibilities item of LongItem characters
P_Long == [P_A EXCEPT !["responsibilities"] = JList(<<Rep("r", LongItem)>>)]
\* location as the heuristic extractor writes it: a string
P_Loc == [P_A EXCEPT !["location"] = JStr(<<"X", ",", " ", "T", "X">>)]

\* save_to_notion(parsed, jd_text, source_url): the (parsed, jd_text) pairs called with
Input(parsed, jd_text) == [parsed |-> parsed, jd_text |-> jd_text]
UploadInputs ==
    {Input(P_A, <<>>), Input(P_A, S_X), Input(P_AB, <<>>), Input(P_Anon, S_X),
     Input(P_Long, S_X), Input(P_Loc, <<>>)}

----------------------------------------------------------------------------
\* Stage two, single-threaded

IdleRun ==
    [pc |-> "idle", arg |-> Absent, jd_text |-> <<>>, cleaned |-> <<>>, fmt |-> "none",
     md_text |-> <<>>,
     heuristics |-> [k \in HeurKeys |-> Absent], calls |-> <<>>, replies |-> <<>>,
     ui |-> <<>>, inferred |-> Absent, result |-> Absent, raised |-> "none"]

\* No parsed_output.json yet.  by is the frame of the run that wrote the file,
\* runs counts the presses of the parse button, ingested lists, per call of
\* save_to_notion made from the file, the job description the file was parsed from.
NoFile ==
    [written |-> FALSE, parsed_output |-> EmptyParsed, by |-> IdleRun, runs |-> 0,
     ingested |-> <<>>]

Init ==
    /\ run = IdleRun
    /\ disk = NoFile
    /\ companies = <<>>
    /\ roles = <<>>
    /\ jobs = <<>>
    /\ nextId = 1
    /\ faults = 0
    /\ digest = <<>>
    /\ ing = [p \in Procs |-> IdleFrame]
    /\ history = <<>>
    /\ hashLog = {}

Next ==
    /\ \E p \in SeqProcs :
        \/ ~Running(p) /\ \E in \in UploadInputs : Call(p, in.parsed, in.jd_text)
        \/ Dedup(p)
        \/ QueryCompany(p)
        \/ WriteCompany(p)
        \/ QueryRole(p)
        \/ WriteRole(p)
        \/ WriteJob(p)
        \/ StoreRaises(p)
    /\ UNCHANGED <<run, disk>>

Spec == Init /\ [][Next]_vars

----------------------------------------------------------------------------
\* Stage two, callers running at the same time: each step is one store round
\* trip of one caller, and nothing orders the round trips of different callers.

\* the calls made at the same time: one document, and one of another company
ConcInputs == {Input(P_A, S_X), Input(P_AB, S_X)}

NextConc ==
    /\ \E p \in ConcProcs :
        \/ ~Running(p) /\ \E in \in ConcInputs : Call(p, in.parsed, in.jd_text)
        \/ Dedup(p)
        \/ QueryCompany(p)
        \/ WriteCompany(p)
        \/ QueryRole(p)
        \/ WriteRole(p)
        \/ WriteJob(p)
        \/ StoreRaises(p)
    /\ UNCHANGED <<run, disk>>

SpecConc == Init /\ [][NextConc]_vars

----------------------------------------------------------------------------
\* Properties of stage two

Last(s) == s[Len(s)]
Collection(coll) ==
    CASE coll = "Company" -> companies [] coll = "Role" -> roles [] OTHER -> jobs
WriteKinds(f) == [i \in DOMAIN f.writes |-> f.writes[i].coll]
JobCreates(f) == {i \in DOMAIN f.writes : f.writes[i].coll = "Job"}
IsPrefix(s, t) == Len(s) <= Len(t) /\ SubSeq(t, 1, Len(s)) = s
SamePair(a, b) == a.company = b.company /\ a.jd_text = b.jd_text
\* The write is in the store as written.
InStore(w) == w.id \in DOMAIN Collection(w.coll) /\ Collection(w.coll)[w.id] = w.props

\* C1: two calls in a row with the same (company, text), the first against a
\* store with no Job of that fingerprint and neither hit by a store failure: the
\* first ends Saved with one Job create, the second ends Duplicate with no write,
\* and exactly one Job carries the fingerprint from then on.
C1_DuplicateSkip ==
    \A i \in 1..(Len(history) - 1) :
        LET a == history[i]
            b == history[i + 1]
        IN  (SamePair(a, b) /\ a.jobs_at_call = 0
                /\ a.outcome # "Failed" /\ b.outcome # "Failed")
            => /\ a.outcome = "Saved"
               /\ Cardinality(JobCreates(a)) = 1
               /\ b.outcome = "Duplicate"
               /\ b.writes = <<>>
               /\ b.job_hash = a.job_hash
               /\ Cardinality({id \in DOMAIN jobs : jobs[id].Hash = HexOf(a.job_hash)}) = 1

C1_Witness ==
    \E i \in 1..(Len(history) - 1) :
        /\ SamePair(history[i], history[i + 1])
        /\ history[i].outcome = "Saved"
        /\ history[i + 1].outcome = "Duplicate"

\* C2: the writes of a call are issued in the order Company, RoleTemplate, Job; a
\* call that ends Saved issued all three; when the Company and the RoleTemplate
\* were both created by the call, the RoleTemplate's relation holds the created
\* Company's id and the Job's relations hold that Company id and RoleTemplate id.
C2_WriteOrder ==
    \A p \in Procs :
        LET f == ing[p]
        IN  /\ IsPrefix(WriteKinds(f), <<"Company", "Role", "Job">>)
            /\ f.outcome = "Saved" =>
                 /\ WriteKinds(f) = <<"Company", "Role", "Job">>
                 /\ f.writes[3].op = "create"
                 /\ (f.writes[1].op = "create" /\ f.writes[2].op = "create") =>
                      /\ f.writes[1].id \in DOMAIN companies
                      /\ f.writes[2].id \in DOMAIN roles
                      /\ f.writes[3].id \in DOMAIN jobs
                      /\ roles[f.writes[2].id].ParsedCompany = f.writes[1].id
                      /\ jobs[f.writes[3].id].ParsedCompany = f.writes[1].id
                      /\ jobs[f.writes[3].id].ParsedRoleTemplate = f.writes[2].id

C2_Witness ==
    \E p \in Procs :
        /\ ing[p].outcome = "Saved"
        /\ ing[p].writes[1].op = "create"
        /\ ing[p].writes[2].op = "create"

\* C6: the step at which a store round trip fails ends the call Failed: the error
\* is reported, the exception is raised to the caller, the call created no Job,
\* and every write the call issued before is in the store as written.
C6_FailedKeepsWrites ==
    [][faults' # faults =>
          /\ Len(history') = Len(history) + 1
          /\ LET f == history'[Len(history')]
             IN  /\ f.outcome = "Failed"
                 /\ Last(f.msgs) = "error"
                 /\ f.raised
                 /\ JobCreates(f) = {}
                 /\ jobs' = jobs
                 /\ \A i \in DOMAIN f.writes :
                        LET w == f.writes[i]
                            c == IF w.coll = "Company" THEN companies' ELSE roles'
                        IN  w.id \in DOMAIN c /\ c[w.id] = w.props]_vars

C6_Witness ==
    \E p \in Procs :
        /\ ing[p].outcome = "Failed"
        /\ ing[p].failed_at = "w_job"
        /\ faults > 0
        /\ Len(ing[p].writes) = 2
        /\ \A i \in DOMAIN ing[p].writes : InStore(ing[p].writes[i])

\* C7: after calls that all carried the same company name and position title and
\* none of which failed, the store (empty at the start) holds one Company, one
\* RoleTemplate, and one Job for each fingerprint the calls computed.
C7_UpsertIdempotent ==
    (/\ history # <<>>
     /\ \A p \in Procs : ~Running(p)
     /\ \A i \in DOMAIN history :
            /\ history[i].outcome \in {"Saved", "Duplicate"}
            /\ history[i].company = history[1].company
            /\ history[i].parsed.position_title = history[1].parsed.position_title)
    => /\ Cardinality(DOMAIN companies) = 1
       /\ Cardinality(DOMAIN roles) = 1
       /\ \A i \in DOMAIN history :
            Cardinality({id \in DOMAIN jobs :
                jobs[id].Hash = HexOf(history[i].job_hash)}) = 1
       /\ Cardinality(DOMAIN jobs) =
            Cardinality({history[i].job_hash : i \in DOMAIN history})

C7_Witness ==
    /\ Len(history) = 2
    /\ \A p \in Procs : ~Running(p)
    /\ \A i \in DOMAIN history :
            /\ history[i].outcome \in {"Saved", "Duplicate"}
            /\ history[i].company = history[1].company
            /\ history[i].parsed.position_title = history[1].parsed.position_title
    /\ history[2].outcome = "Saved"
    /\ history[2].jd_text # history[1].jd_text
    /\ history[2].writes[1].op = "update"
    /\ history[2].writes[2].op = "update"
    /\ Cardinality(DOMAIN jobs) = 2

\* C8: every text property of every page in the store has at most 1900 characters.
C8_TextWithinLimit ==
    /\ \A id \in DOMAIN jobs : \A k \in JobTextFields : Len(jobs[id][k]) <= TextLimit
    /\ \A id \in DOMAIN roles : \A k \in RoleTextFields : Len(roles[id][k]) <= TextLimit
    /\ \A id \in DOMAIN companies :
            \A k \in CompanyTextFields : Len(companies[id][k]) <= TextLimit

\* C9: calls of hash_job_text with the same (company, text) returned the same
\* fingerprint, whenever they were made; calls with the same text and different
\* companies hashed different strings.
C9_FingerprintDeterminism ==
    \A a, b \in hashLog :
        /\ (a.company = b.company /\ a.text = b.text) => a.fp = b.fp
        /\ (a.text = b.text /\ a.company # b.company) => a.base # b.base

\* the same pair hashed by two calls, a Job created in between
C9_Witness ==
    /\ \E i, j \in DOMAIN history :
            /\ i < j
            /\ SamePair(history[i], history[j])
            /\ Cardinality(DOMAIN jobs) > history[i].jobs_at_call
            /\ history[j].job_hash = history[i].job_hash

\* C18: the Company page every Job links to carries the company name that is
\* stored on the Job.
C18_JobCompanyName ==
    \A id \in DOMAIN jobs :
        /\ jobs[id].ParsedCompany \in DOMAIN companies
        /\ companies[jobs[id].ParsedCompany].Name = jobs[id].Company

Creates(f, coll) == {i \in DOMAIN f.writes : f.writes[i].coll = coll /\ f.writes[i].op = "create"}

\* The call failed on a store round trip (and not in build_role_props).
StoreFailed(f) ==
    /\ f.outcome = "Failed"
    /\ ~(f.failed_at = "q_role" /\ build_role_props_raises(f.parsed))

\* C19: a call that ended Failed in the Company, RoleTemplate or Job step is
\* followed by a call with the same input that no store failure hits: the second
\* call ends Saved, one Job carries its fingerprint, and the two calls together
\* created at most one Company and at most one RoleTemplate.
C19_RetryAfterFailure ==
    \A i \in 1..(Len(history) - 1) :
        LET a == history[i]
            b == history[i + 1]
        IN  (/\ SamePair(a, b) /\ a.parsed = b.parsed
             /\ a.outcome = "Failed"
             /\ a.failed_at \in {"q_company", "w_company", "q_role", "w_role", "w_job"}
             /\ ~StoreFailed(b))
            => /\ b.outcome = "Saved"
               /\ Cardinality({id \in DOMAIN jobs : jobs[id].Hash = HexOf(b.job_hash)}) = 1
               /\ Cardinality(Creates(a, "Company")) + Cardinality(Creates(b, "Company")) <= 1
               /\ Cardinality(Creates(a, "Role")) + Cardinality(Creates(b, "Role")) <= 1

----------------------------------------------------------------------------
\* Inputs of run

Fragments ==
    {<<"$","1",",","0">>, <<"$",",">>, <<"-">>, <<"2">>, <<",">>,
     <<"A","b",","," ","T","X">>, <<" ","h","y","B","r","i","d"," ">>, <<"O","P","T">>}

RECURSIVE TextsUpTo(_)
\* The texts made of at most n fragments.
TextsUpTo(n) ==
    IF n = 0 THEN {<<>>}
    ELSE LET T == TextsUpTo(n - 1) IN T \cup {t \o x : t \in T, x \in Fragments}

RunTexts == TextsUpTo(MaxFrags)

\* JSON objects the inference service may return
I_Empty == EmptyParsed
I_Full ==
    [EmptyParsed EXCEPT !["position_title"] = JStr(S_T), !["company"] = JStr(S_A),
                        !["location"] = JDict([regions |-> <<S_X>>]),
                        !["responsibilities"] = JList(<<S_r>>),
                        !["visa_sponsorship"] = JBool(TRUE)]
I_Falsy ==
    [EmptyParsed EXCEPT !["company"] = JStr(<<>>), !["location"] = JStr(<<>>),
                        !["responsibilities"] = JList(<<>>),
                        !["visa_sponsorship"] = JBool(FALSE),
                        !["salary_min"] = JNum(0), !["salary_max"] = JNull,
                        !["currency"] = JList(<<>>), !["remote_hybrid"] = JDict(<<>>)]
I_Truthy ==
    [EmptyParsed EXCEPT !["location"] = JStr(S_X), !["visa_sponsorship"] = JNull,
                        !["salary_min"] = JNum(5), !["salary_max"] = JNum(0),
                        !["currency"] = JStr(<<"E">>), !["remote_hybrid"] = JStr(S_X)]
InfObjects == {I_Empty, I_Full, I_Falsy, I_Truthy}

Replies ==
    {ReplyError, ReplyNone, ReplyText(<<>>), ReplyText(<<" ", "\n">>),
     ReplyText(<<"x">>), ReplyJson(<<"[", "]">>, JList(<<>>)),
     ReplyJson(<<"5">>, JNum(5)), ReplyJson(Quoted(S_X), JStr(S_X)),
     ReplyJson(<<"n","u","l","l">>, JNull)}
    \cup {ReplyJson(<<"{", "}">>, JDict(o)) : o \in InfObjects}

----------------------------------------------------------------------------
\* Stage one

NextParse ==
    \/ run.pc = "idle" /\ \E text \in RunTexts : Begin(text)
    \/ run.pc = "waiting" /\ \E reply \in Replies : Reply(reply)

SpecParse == Init /\ [][NextParse]_vars

----------------------------------------------------------------------------
\* The text functions of stage one, each on its own

RECURSIVE TextsOf(_, _)
\* The texts made of at most n of the fragments.
TextsOf(frags, n) ==
    IF n = 0 THEN {<<>>}
    ELSE LET T == TextsOf(frags, n - 1) IN T \cup {t \o x : t \in T, x \in frags}

\* texts for clean_text
CleanTexts ==
    TextsOf({<<"BULLET">>, <<"ENDASH">>, <<"EMDASH">>, <<"NBSP">>, <<" ">>, <<"\n">>,
             <<"\t", " ">>, <<"x">>}, MaxFrags)

\* texts for detect_format
FormatTexts ==
    TextsOf({<<"<","P">>, <<"<","l","I">>, <<"<">>, <<"#">>, <<"*","*">>,
             <<"[","a","]">>, <<"(","b",")">>, <<" ">>, <<"\n">>, <<"x">>}, MaxFrags)

\* texts for convert_to_markdown
S_Resp == <<"r","e","s","p","o","n","s","i","b","i","l","i","t","i","e","s">>
MarkdownTexts ==
    TextsOf({S_Resp, <<"R","E","S","P","O","N","S","I","B","I","L","I","T","I","E","S">>,
             <<"x">>, <<"_">>, <<" ">>, <<":">>, <<"<","p",">">>}, MaxFrags)

\* cleaned = self.clean_text(arg), arg a str or None; "if not text" holds for
\* None as for the empty text
CleanText(arg) ==
    /\ run.pc = "idle"
    /\ run' = [IdleRun EXCEPT !.pc = "clean_text", !.arg = arg,
                              !.cleaned = IF arg = JNull THEN <<>> ELSE clean_text(arg.v)]
    /\ UNCHANGED <<uploadVars, disk>>

\* clean_text called on the text it returned
CleanAgain ==
    /\ run.pc = "clean_text"
    /\ run' = [run EXCEPT !.pc = "clean_text_again", !.arg = JStr(run.cleaned),
                          !.cleaned = clean_text(run.cleaned)]
    /\ UNCHANGED <<uploadVars, disk>>

\* fmt = self.detect_format(text)
DetectFormat(text) ==
    /\ run.pc = "idle"
    /\ run' = [IdleRun EXCEPT !.pc = "detect_format", !.jd_text = text,
                              !.fmt = detect_format(text)]
    /\ UNCHANGED <<uploadVars, disk>>

\* md_text = self.convert_to_markdown(text)
ConvertToMarkdown(text) ==
    /\ run.pc = "idle"
    /\ run' = [IdleRun EXCEPT !.pc = "convert_to_markdown", !.jd_text = text,
                              !.fmt = detect_format(text),
                              !.md_text = convert_to_markdown(text)]
    /\ UNCHANGED <<uploadVars, disk>>

NextText ==
    \/ run.pc = "idle" /\ \E text \in CleanTexts : CleanText(JStr(text))
    \/ CleanText(JNull)
    \/ CleanAgain
    \/ run.pc = "idle" /\ \E text \in FormatTexts : DetectFormat(text)
    \/ run.pc = "idle" /\ \E text \in MarkdownTexts : ConvertToMarkdown(text)

SpecText == Init /\ [][NextText]_vars

----------------------------------------------------------------------------
\* Both stages: the parse button of app1_parser.py, parsed_output.json, and the
\* update button of app2_notion_uploader_v3.py

\* job descriptions pasted into stage one
PipeTexts ==
    {<<" ">>, S_X, <<"$","1",",","0","-","2">>, <<"O","P","T">>}

\* replies of the inference service
PipeReplies ==
    {ReplyError, ReplyText(<<>>), ReplyJson(<<"{", "}">>, JDict(I_Empty)),
     ReplyJson(<<"{", "}">>, JDict(I_Full))}

\* if st.button(...): if not jd_text.strip(): st.error(...) else: parser.run(jd_text)
ParseButton(text) ==
    /\ Strip(text) # <<>>
    /\ Begin(text)

\* "if result": a dict with at least one key
EmptyResult(result) == \A k \in ParsedKeys : result.v[k] = Absent

\* json.dump(result, f) and, in stage two, json.load(f): the dict that was
\* written, with its keys and values (strings, numbers, booleans, null, lists)
FileContent(result) == [k \in ParsedKeys |-> result.v[k]]

\* After parser.run returned: if result: st.success, st.json, write
\* parsed_output.json, st.info; else: st.error("No valid JSON extracted.")
ShowResult ==
    /\ run.pc = "returned"
    /\ IF ~EmptyResult(run.result)
       THEN /\ run' = [run EXCEPT !.pc = "shown", !.ui = @ \o <<"success", "saved">>]
            /\ disk' = [disk EXCEPT !.written = TRUE,
                                    !.parsed_output = FileContent(run.result),
                                    !.by = run]
       ELSE /\ run' = [run EXCEPT !.pc = "shown", !.ui = Append(@, "no_valid_json")]
            /\ disk' = disk
    /\ UNCHANGED uploadVars

\* The script of stage one runs again for the next press of the button.
RunAgain ==
    /\ run.pc \in {"shown", "raised"}
    /\ disk.runs + 1 < MaxRuns
    /\ run' = IdleRun
    /\ disk' = [disk EXCEPT !.runs = @ + 1]
    /\ UNCHANGED uploadVars

\* Stage two: if os.path.exists(parsed_json_path): parsed = json.load(f);
\* jd_text = parsed.get("markdown_text", ""); on the button
\* save_to_notion(parsed, jd_text, source_url)
Upload(p) ==
    /\ disk.written
    /\ Call(p, disk.parsed_output, GetText(disk.parsed_output, "markdown_text", <<>>))
    /\ disk' = [disk EXCEPT !.ingested = Append(@, disk.by.jd_text)]
    /\ UNCHANGED run

NextPipe ==
    \/ run.pc = "idle" /\ \E text \in PipeTexts : ParseButton(text)
    \/ run.pc = "waiting" /\ \E reply \in PipeReplies : Reply(reply)
    \/ ShowResult
    \/ RunAgain
    \/ \E p \in SeqProcs : Upload(p)
    \/ /\ \E p \in SeqProcs :
            \/ Dedup(p)
            \/ QueryCompany(p)
            \/ WriteCompany(p)
            \/ QueryRole(p)
            \/ WriteRole(p)
            \/ WriteJob(p)
            \/ StoreRaises(p)
       /\ UNCHANGED <<run, disk>>

SpecPipe == Init /\ [][NextPipe]_vars

----------------------------------------------------------------------------
\* Properties of stage one

\* A reply that is a failure of its target: the call raised, or the content is
\* missing, empty, blank, or not JSON.
FailedReply(reply) ==
    \/ reply.kind \in {"error", "none"}
    \/ Strip(reply.raw) = <<>>
    \/ reply.loads = Absent

\* C3: the first request goes to gpt-5; a second request is made exactly when the
\* first reply failed, goes to gpt-4o and carries the same system and user
\* messages; a reply that parses ends the loop with its parsed value; there is no
\* third request.
C3_FallbackOnce ==
    LET calls == run.calls
        replies == run.replies
    IN  /\ Len(calls) <= 2
        /\ Len(replies) <= Len(calls)
        /\ Len(calls) >= 1 => calls[1].model = "gpt-5"
        /\ Len(calls) = 2 =>
             /\ calls[2].model = "gpt-4o"
             /\ Len(replies) >= 1 /\ FailedReply(replies[1])
             /\ calls[2].system = calls[1].system
             /\ calls[2].user = calls[1].user
        /\ (Len(replies) >= 1 /\ FailedReply(replies[1])) => Len(calls) = 2
        /\ (Len(replies) >= 1 /\ ~FailedReply(replies[1])) =>
             /\ Len(calls) = 1
             /\ run.pc # "waiting"
             /\ run.inferred = replies[1].loads
        /\ (Len(replies) = 2 /\ ~FailedReply(replies[2])) =>
             /\ run.pc # "waiting"
             /\ run.inferred = replies[2].loads

C3_Witness ==
    /\ Len(run.replies) = 2
    /\ FailedReply(run.replies[1])
    /\ ~FailedReply(run.replies[2])
    /\ run.pc = "returned"
    /\ run.heuristics["location"] # Absent

\* C4: when both replies failed, whatever the two kinds of failure,
\* parse_with_gpt5 has returned {} and nothing was raised.
C4_BothFailEmpty ==
    (/\ Len(run.replies) = 2
     /\ FailedReply(run.replies[1])
     /\ FailedReply(run.replies[2]))
    => /\ run.inferred = JDict(EmptyParsed)
       /\ run.raised = "none"
       /\ run.pc = "returned"
       /\ Last(run.ui) = "error"

C4_Witness ==
    /\ Len(run.replies) = 2
    /\ run.replies[1].kind = "error"
    /\ run.replies[2].kind = "text" /\ run.replies[2].raw = <<"x">>
    /\ run.pc = "returned"

\* C5: in the record run returns, a key that heuristics holds has the heuristic
\* value if the inference record lacks it or holds "", [], {}, 0, null or false
\* there, and the inference value otherwise; every other key has the inference
\* value, present or not.
C5_MergeRule ==
    run.pc = "returned" =>
        LET p == run.inferred.v
            h == run.heuristics
            m == run.result.v
            falsy(v) ==
                \/ v = JNull \/ v = JBool(FALSE) \/ v = JNum(0)
                \/ v = JStr(<<>>) \/ v = JList(<<>>) \/ v = JDict(<<>>)
        IN  \A k \in ParsedKeys :
                IF k \in HeurKeys /\ h[k] # Absent
                THEN m[k] = IF p[k] = Absent \/ falsy(p[k]) THEN h[k] ELSE p[k]
                ELSE m[k] = p[k]

C5_Witness ==
    /\ run.pc = "returned"
    /\ run.inferred = JDict(I_Falsy)
    /\ run.heuristics["salary_min"] # Absent
    /\ run.result.v["salary_min"] = run.heuristics["salary_min"]
    /\ run.result.v["responsibilities"] = JList(<<>>)

\* C10: heuristic_extract raises for no text.
C10_HeuristicNeverRaises == ~(run.pc = "raised" /\ run.raised = "ValueError")

\* C15: content that is JSON but not an object is a failure of its target: the
\* value parse_with_gpt5 returns is a mapping and the merge loop of run does not
\* raise.
C15_ObjectOnly ==
    /\ run.inferred.t \in {"absent", "dict"}
    /\ ~(run.pc = "raised" /\ run.raised = "TypeError")
    /\ \A i \in DOMAIN run.replies :
            (~FailedReply(run.replies[i]) /\ run.replies[i].loads.t # "dict")
            => Len(run.calls) > i \/ Last(run.ui) = "error"

\* C16: every reply that is a failure of its target (the call raised, the content
\* is missing, empty, blank or not JSON) has its own warning in the log.
C16_WarningPerFailure ==
    Cardinality({i \in DOMAIN run.ui : run.ui[i] = "warning"})
        = Cardinality({i \in DOMAIN run.replies : FailedReply(run.replies[i])})

----------------------------------------------------------------------------
\* Properties of the text functions

\* C11: clean_text applied to a text that clean_text returned gives that text
\* back, and clean_text of the empty text or of None is the empty text.
C11_CleanIdempotent ==
    /\ run.pc = "clean_text_again" => run.cleaned = run.arg.v
    /\ (run.pc = "clean_text" /\ run.arg \in {JNull, JStr(<<>>)}) => run.cleaned = <<>>

\* the second call on a text in which a bullet and a dash were rewritten
C11_Witness ==
    /\ run.pc = "clean_text_again"
    /\ run.cleaned = <<"BULLET", " ", "-">>

\* C12: a text that holds one of the HTML tag patterns, in any letter case, is
\* html whether or not it holds a Markdown pattern; a text is markdown exactly
\* when it holds no HTML pattern and holds a Markdown pattern, and plain exactly
\* when it holds neither.
C12_HtmlPrecedence ==
    run.pc = "detect_format" =>
        LET text == run.jd_text
            lowered == [i \in DOMAIN text |-> ToLower(text[i])]
            html == \E n \in DOMAIN HtmlPatterns : Contains(lowered, HtmlPatterns[n])
            markdown == MdHeading(text) \/ MdBold(text) \/ MdLink(text)
        IN  /\ html => run.fmt = "html"
            /\ run.fmt = "markdown" <=> (~html /\ markdown)
            /\ run.fmt = "plain" <=> (~html /\ ~markdown)

\* an upper-case tag behind a Markdown heading
C12_Witness ==
    /\ run.pc = "detect_format"
    /\ run.jd_text = <<"#", " ", "<", "P">>
    /\ run.fmt = "html"

S_RespHeading == <<"#","#"," ","R","e","s","p","o","n","s","i","b","i","l","i","t","i","e","s">>

\* "responsibilities" stands in the text as a word of its own, in any letter case:
\* \b on both sides
RespWordIn(text) ==
    \E i \in 1..(Len(text) - Len(S_Resp) + 1) :
        /\ [k \in DOMAIN S_Resp |-> ToLower(text[i + k - 1])] = S_Resp
        /\ At(text, i - 1) \notin WordChars
        /\ At(text, i + Len(S_Resp)) \notin WordChars

\* C13 as stated: a plain text that holds "responsibilities" anywhere, in any
\* letter case and whatever surrounds it, is converted to a text that holds the
\* heading "## Responsibilities".
C13_HeadingAnywhere ==
    (/\ run.pc = "convert_to_markdown"
     /\ run.fmt = "plain"
     /\ Contains([i \in DOMAIN run.jd_text |-> ToLower(run.jd_text[i])], S_Resp))
    => Contains(run.md_text, S_RespHeading)

\* C13 amended: a plain text that holds "responsibilities" as a word of its own
\* (no letter, digit or underscore next to it), in any letter case, is converted
\* to a text that holds the heading "## Responsibilities".
C13_HeadingForWord ==
    (/\ run.pc = "convert_to_markdown"
     /\ run.fmt = "plain"
     /\ RespWordIn(run.jd_text))
    => Contains(run.md_text, S_RespHeading)

\* the word in upper case between a colon and a blank
C13_Witness ==
    /\ run.pc = "convert_to_markdown"
    /\ run.fmt = "plain"
    /\ run.jd_text = <<":">> \o [i \in DOMAIN S_Resp |-> ToUpper(S_Resp[i])] \o <<" ">>
    /\ run.md_text = <<":">> \o S_RespHeading

----------------------------------------------------------------------------
\* Properties of stage two with callers running at the same time

JobsWith(job_hash) == {id \in DOMAIN jobs : jobs[id].Hash = HexOf(job_hash)}

\* C14: when the calls of two callers carry the same (company, text), both found
\* no Job of their fingerprint at the duplicate check and both went on to the end
\* without a store failure, both end Saved with the same fingerprint and the Job
\* collection holds two records of that fingerprint, one created by each: no step
\* of save_to_notion waits for, or looks again at, the other caller's Job.
C14_CheckThenActRace ==
    \A i, j \in DOMAIN history :
        LET a == history[i]
            b == history[j]
        IN  (/\ i < j
             /\ SamePair(a, b)
             /\ a.outcome \notin {"Duplicate", "Failed"}
             /\ b.outcome \notin {"Duplicate", "Failed"})
            => /\ a.outcome = "Saved" /\ b.outcome = "Saved"
               /\ a.job_hash = b.job_hash
               /\ Last(a.writes).id # Last(b.writes).id
               /\ {Last(a.writes).id, Last(b.writes).id} \subseteq JobsWith(a.job_hash)

\* two calls of one pair, both past the duplicate check before either created
\* its Job, both Saved: two Jobs of one fingerprint
C14_Witness ==
    /\ Len(history) = 2
    /\ SamePair(history[1], history[2])
    /\ history[1].outcome = "Saved" /\ history[2].outcome = "Saved"
    /\ history[1].jobs_at_call = 0 /\ history[2].jobs_at_call = 0
    /\ Cardinality(JobsWith(history[1].job_hash)) = 2

----------------------------------------------------------------------------
\* Properties of the two stages together

\* The texts of a job description that stage one holds: raw, cleaned, Markdown.
TextsOfDocument(jd_text) ==
    {jd_text, clean_text(jd_text), convert_to_markdown(clean_text(jd_text))}

\* C17: of two calls of save_to_notion made from parsed_output.json for two
\* different job descriptions of one company, neither hit by a store failure,
\* each hashed the text of its own job description, so the hashed strings differ;
\* and the second is reported Duplicate only if the same job description was
\* ingested before it or its digest collides with an earlier one.
C17_FingerprintFromJobText ==
    \A i, j \in DOMAIN history :
        LET a == history[i]
            b == history[j]
            base(f) == hash_base(f.jd_text, f.company)
        IN  (/\ i < j
             /\ a.company = b.company
             /\ disk.ingested[i] # disk.ingested[j]
             /\ a.outcome # "Failed" /\ b.outcome # "Failed")
            => /\ a.jd_text \in TextsOfDocument(disk.ingested[i])
               /\ b.jd_text \in TextsOfDocument(disk.ingested[j])
               /\ base(a) # base(b)
               /\ b.outcome = "Duplicate" =>
                    \E k \in 1..(j - 1) :
                        /\ history[k].job_hash = b.job_hash
                        /\ \/ disk.ingested[k] = disk.ingested[j]
                           \/ base(history[k]) # base(b)

\* C20: when both replies for a job description failed, the record run returns
\* is empty and the parse button reports that no valid JSON was extracted; and
\* parsed_output.json, when it exists, was written by a run in which a target
\* produced a record.
C20_EmptyWhenBothFail ==
    /\ (/\ run.pc \in {"returned", "shown"}
        /\ Len(run.replies) = 2
        /\ FailedReply(run.replies[1]) /\ FailedReply(run.replies[2]))
       => /\ EmptyResult(run.result)
          /\ run.pc = "shown" => Last(run.ui) = "no_valid_json"
    /\ disk.written =>
          \E i \in DOMAIN disk.by.replies : ~FailedReply(disk.by.replies[i])
    /\ \A i \in DOMAIN history : ~EmptyResult(JDict(history[i].parsed))

====
